---- MODULE Spec2Model ----
(***************************************************************************)
(* Model of snakemake_storage_plugin_nersc: the logical -> physical path   *)
(* mapping of StorageProvider / StorageObject and the storage operations   *)
(* built on it.                                                            *)
(*                                                                         *)
(* A Python str is a sequence of one-character strings, so that            *)
(* startswith, rstrip, lstrip, slicing, os.path.join and os.path.normpath  *)
(* are computed as the interpreter computes them.                          *)
(***************************************************************************)
EXTENDS Integers, Sequences, FiniteSets, TLC

VARIABLES
    settings,     \* StorageProviderSettings: logical_root, physical_root (Optional[str])
    raw,          \* the query string the caller hands to the provider
    validation,   \* what is_valid_query returned for raw (NoValue before the call)
    obj,          \* the StorageObject: query, _logical_root, _physical_root (NoValue before construction)
    mapped,       \* path spec: _real_path() of obj and _logical_from_physical of it
    accessed,     \* the storage-side path the last operation handed to the OS
    fs,           \* the filesystem: existing node path -> node
    dst,          \* self.local_path(), supplied by the engine
    pc,           \* position of the running operation
    todo,         \* entries of the running rglob loop still to visit
    total,        \* size(): the running sum
    checked,      \* whether the running operation saw its path existing when it started
    outcome,      \* how the last operation ended (NoValue while one is running)
    snapshot,     \* the storage-side filesystem as it was before any operation
    runs,         \* retrieve_object calls that ran to their end
    interrupted   \* whether a retrieve_object call was cut off after it had written

vars == << settings, raw, validation, obj, mapped, accessed, fs, dst, pc, todo,
           total, checked, outcome, snapshot, runs, interrupted >>

fsVars == << fs, dst, pc, todo, total, checked, outcome, snapshot, runs, interrupted >>

(***************************************************************************)
(* Python values                                                           *)
(***************************************************************************)
\* Optional[str]: None is the empty set, a string s is {s}.
None == {}
Some(s) == {s}

\* `x or default` of Python: None and "" are falsy.
OrDefault(x, default) ==
    IF x = None \/ x = Some(<< >>) THEN default ELSE CHOOSE s \in x : TRUE

NoValue == [set |-> FALSE]

\* str.startswith
StartsWith(s, prefix) ==
    /\ Len(prefix) <= Len(s)
    /\ SubSeq(s, 1, Len(prefix)) = prefix

\* s[n:]
DropFirst(s, n) == SubSeq(s, n + 1, Len(s))

\* str.rstrip("/")
RECURSIVE RStrip(_)
RStrip(s) ==
    IF Len(s) > 0 /\ s[Len(s)] = "/" THEN RStrip(SubSeq(s, 1, Len(s) - 1)) ELSE s

\* str.lstrip("/")
RECURSIVE LStrip(_)
LStrip(s) ==
    IF Len(s) > 0 /\ s[1] = "/" THEN LStrip(Tail(s)) ELSE s

\* str.split("/")
RECURSIVE Split(_)
Split(s) ==
    IF Len(s) = 0 THEN << << >> >>
    ELSE LET rest == Split(Tail(s))
         IN  IF Head(s) = "/" THEN << << >> >> \o rest
             ELSE << << Head(s) >> \o Head(rest) >> \o Tail(rest)

\* "/".join(comps)
RECURSIVE JoinComps(_)
JoinComps(comps) ==
    IF Len(comps) = 0 THEN << >>
    ELSE IF Len(comps) = 1 THEN comps[1]
    ELSE comps[1] \o << "/" >> \o JoinComps(Tail(comps))

DotDot == << ".", "." >>

\* The component loop of posixpath.normpath.
RECURSIVE NormComps(_, _, _)
NormComps(comps, initial_slashes, new_comps) ==
    IF Len(comps) = 0 THEN new_comps
    ELSE LET comp == Head(comps)
         IN  IF comp = << >> \/ comp = << "." >>
             THEN NormComps(Tail(comps), initial_slashes, new_comps)
             ELSE IF \/ comp # DotDot
                     \/ (initial_slashes = 0 /\ Len(new_comps) = 0)
                     \/ (Len(new_comps) > 0 /\ new_comps[Len(new_comps)] = DotDot)
             THEN NormComps(Tail(comps), initial_slashes, Append(new_comps, comp))
             ELSE IF Len(new_comps) > 0
             THEN NormComps(Tail(comps), initial_slashes,
                            SubSeq(new_comps, 1, Len(new_comps) - 1))
             ELSE NormComps(Tail(comps), initial_slashes, new_comps)

\* os.path.normpath (posixpath): exactly two leading slashes are kept.
NormPath(path) ==
    IF path = << >> THEN << "." >>
    ELSE LET initial_slashes ==
                 IF ~StartsWith(path, << "/" >>) THEN 0
                 ELSE IF StartsWith(path, << "/", "/" >>)
                         /\ ~StartsWith(path, << "/", "/", "/" >>) THEN 2
                 ELSE 1
             joined == JoinComps(NormComps(Split(path), initial_slashes, << >>))
             out == [i \in 1..initial_slashes |-> "/"] \o joined
         IN  IF out = << >> THEN << "." >> ELSE out

\* os.path.join(a, b) (posixpath)
PathJoin(a, b) ==
    IF StartsWith(b, << "/" >>) THEN b
    ELSE IF a = << >> \/ a[Len(a)] = "/" THEN a \o b
    ELSE a \o << "/" >> \o b

(***************************************************************************)
(* StorageProvider                                                         *)
(***************************************************************************)
DefaultLogicalRoot == << "/", "g", "l", "o", "b", "a", "l" >>
DefaultPhysicalRoot == << "/", "d", "v", "s", "_", "r", "o" >>

AbsoluteOnlyReason == "NERSC storage plugin only supports absolute paths."

\* is_valid_query with the test `not query.startswith("/")` weakened to
\* `not query`: every non-empty query is accepted.
is_valid_query_nonempty(query) ==
    IF query = << >>
    THEN [set |-> TRUE, query |-> query, valid |-> FALSE,
          reason |-> Some(AbsoluteOnlyReason)]
    ELSE [set |-> TRUE, query |-> query, valid |-> TRUE, reason |-> None]

\* StorageProvider.is_valid_query: a classmethod, it does not see the settings.
is_valid_query(query) ==
    IF ~StartsWith(query, << "/" >>)
    THEN [set |-> TRUE, query |-> query, valid |-> FALSE,
          reason |-> Some(AbsoluteOnlyReason)]
    ELSE [set |-> TRUE, query |-> query, valid |-> TRUE, reason |-> None]

\* StorageProvider.postprocess_query
postprocess_query(query) == NormPath(query)

(***************************************************************************)
(* StorageObject: the path mapping                                         *)
(***************************************************************************)
\* StorageObject.__post_init__ on a query the provider has post-processed.
NewStorageObject(query, s) ==
    [set |-> TRUE,
     query |-> query,
     _logical_root |-> RStrip(OrDefault(s.logical_root, DefaultLogicalRoot)),
     _physical_root |-> RStrip(OrDefault(s.physical_root, DefaultPhysicalRoot))]

\* StorageObject._real_path
_real_path(self) ==
    LET logical_prefix == self._logical_root \o << "/" >>
    IN  IF StartsWith(self.query, logical_prefix)
        THEN LET rel == DropFirst(self.query, Len(self._logical_root))
             IN  PathJoin(self._physical_root, LStrip(rel))
        ELSE self.query

\* StorageObject._logical_from_physical
_logical_from_physical(self, physical_path) ==
    LET physical_prefix == self._physical_root \o << "/" >>
    IN  IF StartsWith(physical_path, physical_prefix)
        THEN LET rel == DropFirst(physical_path, Len(physical_prefix))
             IN  self._logical_root \o << "/" >> \o LStrip(rel)
        ELSE physical_path

(***************************************************************************)
(* The filesystem the operations run on.  A node path is the sequence of   *)
(* its components from "/", fs maps every existing node path to its node.  *)
(* There are no symbolic links.                                            *)
(***************************************************************************)
Dir == [kind |-> "dir", data |-> << >>]
File(data) == [kind |-> "file", data |-> data]

\* The working directory of the process, against which the OS resolves a
\* relative path: the root directory.
Cwd == << >>

\* The component loop of the kernel's path walk: "" and "." stay, ".." goes up.
RECURSIVE Walk(_, _)
Walk(comps, at) ==
    IF Len(comps) = 0 THEN at
    ELSE LET comp == Head(comps)
         IN  IF comp = << >> \/ comp = << "." >> THEN Walk(Tail(comps), at)
             ELSE IF comp = DotDot
             THEN Walk(Tail(comps),
                       IF Len(at) = 0 THEN at ELSE SubSeq(at, 1, Len(at) - 1))
             ELSE Walk(Tail(comps), Append(at, comp))

\* The node path a path string names.
Resolve(path) ==
    Walk(Split(path), IF StartsWith(path, << "/" >>) THEN << >> ELSE Cwd)

Parent(node) == SubSeq(node, 1, Len(node) - 1)

IsPrefix(a, b) == Len(a) <= Len(b) /\ SubSeq(b, 1, Len(a)) = a

\* The proper ancestors of a node that are no directory (missing or a file).
BadAncestors(f, node) ==
    { i \in 1..(Len(node) - 1) :
        LET a == SubSeq(node, 1, i)
        IN  a \notin DOMAIN f \/ f[a].kind # "dir" }

\* errno of a path lookup (stat, open for reading): "ok", or the exception
\* Python raises for ENOENT and ENOTDIR.
LookupError(f, node) ==
    IF BadAncestors(f, node) # {}
    THEN LET i == CHOOSE j \in BadAncestors(f, node) :
                     \A k \in BadAncestors(f, node) : j <= k
         IN  IF SubSeq(node, 1, i) \in DOMAIN f THEN "NotADirectoryError"
             ELSE "FileNotFoundError"
    ELSE IF node \in DOMAIN f THEN "ok" ELSE "FileNotFoundError"

\* Path.exists, Path.is_dir, Path.is_file: ENOENT and ENOTDIR read as False.
PathExists(f, path) == LookupError(f, Resolve(path)) = "ok"
PathIsDir(f, path) == PathExists(f, path) /\ f[Resolve(path)].kind = "dir"
PathIsFile(f, path) == PathExists(f, path) /\ f[Resolve(path)].kind = "file"

\* Path.rglob("*"): every node below the directory, hidden ones included.
RGlob(f, path) ==
    { n \in DOMAIN f : IsPrefix(Resolve(path), n) /\ n # Resolve(path) }

\* Path.relative_to(src) of an rglob entry, then dst / rel.
TargetOf(entry, src, dstNode) == dstNode \o DropFirst(entry, Len(Resolve(src)))

\* Path.mkdir(parents=True, exist_ok=False) on a node: the missing ancestors
\* are made, an existing target raises.
MkdirNoExistOk(f, node) ==
    LET err == LookupError(f, node)
    IN  IF err = "NotADirectoryError" THEN [err |-> err, fs |-> f]
        ELSE IF node \in DOMAIN f THEN [err |-> "FileExistsError", fs |-> f]
        ELSE [err |-> "ok",
              fs |-> [n \in DOMAIN f \cup { SubSeq(node, 1, i) : i \in 1..Len(node) }
                        |-> IF n \in DOMAIN f THEN f[n] ELSE Dir]]

\* Path.mkdir(parents=True, exist_ok=True) on a node.
Mkdir(f, node) ==
    LET err == LookupError(f, node)
    IN  IF err = "NotADirectoryError" THEN [err |-> err, fs |-> f]
        ELSE IF node \in DOMAIN f /\ f[node].kind # "dir"
        THEN [err |-> "FileExistsError", fs |-> f]
        ELSE [err |-> "ok",
              fs |-> [n \in DOMAIN f \cup { SubSeq(node, 1, i) : i \in 1..Len(node) }
                        |-> IF n \in DOMAIN f THEN f[n] ELSE Dir]]

\* Path.read_bytes on a node.
ReadBytes(f, node) ==
    LET err == LookupError(f, node)
    IN  IF err # "ok" THEN [err |-> err, data |-> << >>]
        ELSE IF f[node].kind = "dir" THEN [err |-> "IsADirectoryError", data |-> << >>]
        ELSE [err |-> "ok", data |-> f[node].data]

\* Path.write_bytes on a node: open(mode="wb") makes or truncates the file.
WriteBytes(f, node, data) ==
    LET err == IF Len(node) = 0 THEN "IsADirectoryError" ELSE LookupError(f, Parent(node))
    IN  IF err # "ok" THEN [err |-> err, fs |-> f]
        ELSE IF f[Parent(node)].kind # "dir" THEN [err |-> "NotADirectoryError", fs |-> f]
        ELSE IF node \in DOMAIN f /\ f[node].kind = "dir"
        THEN [err |-> "IsADirectoryError", fs |-> f]
        ELSE [err |-> "ok",
              fs |-> [n \in DOMAIN f \cup { node } |->
                        IF n = node THEN File(data) ELSE f[n]]]

(***************************************************************************)
(* glob.glob(pattern): not recursive, hidden names only for a pattern that *)
(* starts with a dot; the patterns of the model use "*" and "?".           *)
(***************************************************************************)
MagicChars == { "*", "?", "[" }
HasMagic(s) == \E i \in 1..Len(s) : s[i] \in MagicChars

\* str.rfind("/") + 1
AfterLastSlash(s) ==
    LET at == { i \in 1..Len(s) : s[i] = "/" }
    IN  IF at = {} THEN 0 ELSE CHOOSE i \in at : \A j \in at : j <= i

\* os.path.split
SplitHead(s) ==
    LET head == SubSeq(s, 1, AfterLastSlash(s))
    IN  IF head # << >> /\ RStrip(head) # << >> THEN RStrip(head) ELSE head
SplitTail(s) == DropFirst(s, AfterLastSlash(s))

\* fnmatch on one name
RECURSIVE FnMatch(_, _)
FnMatch(name, pat) ==
    IF Len(pat) = 0 THEN Len(name) = 0
    ELSE IF Head(pat) = "*"
    THEN FnMatch(name, Tail(pat)) \/ (Len(name) > 0 /\ FnMatch(Tail(name), pat))
    ELSE IF Head(pat) = "?"
    THEN Len(name) > 0 /\ FnMatch(Tail(name), Tail(pat))
    ELSE Len(name) > 0 /\ Head(name) = Head(pat) /\ FnMatch(Tail(name), Tail(pat))

IsHidden(name) == Len(name) > 0 /\ name[1] = "."

\* glob._listdir: the names in a directory (only the directories with
\* dironly), nothing when it cannot be listed; "" is the working directory.
ListDir(f, dirname, dironly) ==
    IF ~PathIsDir(f, dirname) THEN {}
    ELSE { n[Len(n)] : n \in { m \in DOMAIN f :
                                  /\ Len(m) = Len(Resolve(dirname)) + 1
                                  /\ IsPrefix(Resolve(dirname), m)
                                  /\ (dironly => f[m].kind = "dir") } }

\* glob._glob1
Glob1(f, dirname, pattern, dironly) ==
    { n \in ListDir(f, dirname, dironly) :
        (IsHidden(pattern) \/ ~IsHidden(n)) /\ FnMatch(n, pattern) }

\* glob._glob0
Glob0(f, dirname, basename) ==
    IF basename # << >>
    THEN IF PathExists(f, PathJoin(dirname, basename)) THEN { basename } ELSE {}
    ELSE IF PathIsDir(f, dirname) THEN { basename } ELSE {}

\* glob._iglob
RECURSIVE Glob(_, _, _)
Glob(f, pathname, dironly) ==
    LET dirname == SplitHead(pathname)
        basename == SplitTail(pathname)
    IN  IF ~HasMagic(pathname)
        THEN IF basename # << >>
             THEN IF PathExists(f, pathname) THEN { pathname } ELSE {}
             ELSE IF PathIsDir(f, dirname) THEN { pathname } ELSE {}
        ELSE IF dirname = << >> THEN Glob1(f, << >>, basename, dironly)
        ELSE LET dirs == IF dirname # pathname /\ HasMagic(dirname)
                         THEN Glob(f, dirname, TRUE) ELSE { dirname }
             IN  UNION { { PathJoin(d, n) :
                             n \in IF HasMagic(basename)
                                   THEN Glob1(f, d, basename, dironly)
                                   ELSE Glob0(f, d, basename) } : d \in dirs }

(***************************************************************************)
(* Path specification: the provider validates a query, builds the object   *)
(* and maps its path; every operation resolves its storage-side path with  *)
(* _real_path.                                                             *)
(***************************************************************************)
MaxAtoms == 4

\* What the enumerated queries are made of: separators, dots, a name, and
\* the names of the configured and of the default roots.
QueryAtoms ==
    { << "/" >>, << "." >>, << "x" >>, << "g" >>, << "p" >>,
      << "g", "l", "o", "b", "a", "l" >>, << "d", "v", "s", "_", "r", "o" >> }

RECURSIVE AtomStrings(_)
AtomStrings(n) ==
    IF n = 0 THEN { << >> }
    ELSE LET shorter == AtomStrings(n - 1)
         IN  shorter \cup { s \o a : s \in shorter, a \in QueryAtoms }

PathSettings ==
    [logical_root : { None, Some(<< "/", "g", "/" >>), Some(<< "/" >>) },
     physical_root : { None, Some(<< "/", "p" >>), Some(<< "/" >>) }]

\* The operations that hand _real_path() to the OS as the storage-side path.
StorageReaders ==
    { "exists", "mtime", "size", "retrieve_object", "inventory",
      "list_candidate_matches" }

EmptyFs == [p \in {} |-> NoValue]

InitPath ==
    /\ settings \in PathSettings
    /\ raw \in AtomStrings(MaxAtoms)
    /\ validation = NoValue
    /\ obj = NoValue
    /\ mapped = NoValue
    /\ accessed = NoValue
    /\ fs = EmptyFs
    /\ dst = << >>
    /\ pc = [op |-> "", at |-> "idle", cur |-> << >>]
    /\ todo = {}
    /\ total = 0
    /\ checked = FALSE
    /\ outcome = NoValue
    /\ snapshot = EmptyFs
    /\ runs = 0
    /\ interrupted = FALSE

\* The engine asks the provider whether the query is valid.
ValidateQuery ==
    /\ validation = NoValue
    /\ validation' = is_valid_query(raw)
    /\ UNCHANGED << settings, raw, obj, mapped, accessed >>
    /\ UNCHANGED fsVars

\* The engine builds the object of a valid query: postprocess_query, then
\* __post_init__.
ConstructObject ==
    /\ validation # NoValue
    /\ validation.valid
    /\ obj = NoValue
    /\ obj' = NewStorageObject(postprocess_query(raw), settings)
    /\ UNCHANGED << settings, raw, validation, mapped, accessed >>
    /\ UNCHANGED fsVars

MapToPhysical ==
    /\ obj # NoValue
    /\ mapped = NoValue
    /\ mapped' = [set |-> TRUE, physical |-> _real_path(obj), logical |-> None]
    /\ UNCHANGED << settings, raw, validation, obj, accessed >>
    /\ UNCHANGED fsVars

MapBackToLogical ==
    /\ mapped # NoValue
    /\ mapped.logical = None
    /\ mapped' = [mapped EXCEPT
                    !.logical = Some(_logical_from_physical(obj, mapped.physical))]
    /\ UNCHANGED << settings, raw, validation, obj, accessed >>
    /\ UNCHANGED fsVars

\* Path(self._real_path()) at the head of an operation.
ResolveForOperation ==
    /\ mapped # NoValue
    /\ mapped.logical # None
    /\ accessed = NoValue
    /\ \E op \in StorageReaders :
          accessed' = [set |-> TRUE, op |-> op, path |-> _real_path(obj)]
    /\ UNCHANGED << settings, raw, validation, obj, mapped >>
    /\ UNCHANGED fsVars

NextPath ==
    \/ ValidateQuery
    \/ ConstructObject
    \/ MapToPhysical
    \/ MapBackToLogical
    \/ ResolveForOperation

SpecPath == InitPath /\ [][NextPath]_vars

\* The configured roots with their trailing separators stripped.
LogicalRoot == RStrip(OrDefault(settings.logical_root, DefaultLogicalRoot))
PhysicalRoot == RStrip(OrDefault(settings.physical_root, DefaultPhysicalRoot))

UnderRoot(path, root) == path = root \/ StartsWith(path, root \o << "/" >>)

(***************************************************************************)
(* Storage specification: one object on a filesystem with a storage tree   *)
(* under /p and the engine's local area under /l.                          *)
(***************************************************************************)
MaxRuns == 2

FsSettings ==
    { [logical_root |-> Some(<< "/", "g" >>), physical_root |-> Some(<< "/", "p", "/" >>)],
      [logical_root |-> Some(<< "/", "g" >>), physical_root |-> Some(<< "/" >>)] }

\* The storage tree: what may be at each place under /p.
P_d == << << "p" >>, << "d" >> >>
P_d_x == << << "p" >>, << "d" >>, << "x" >> >>
P_d_h == << << "p" >>, << "d" >>, << ".", "h" >> >>
P_d_s == << << "p" >>, << "d" >>, << "s" >> >>
P_d_s_y == << << "p" >>, << "d" >>, << "s" >>, << "y" >> >>

TreeSlots == { P_d, P_d_x, P_d_h, P_d_s, P_d_s_y }

SlotNodes(slot) ==
    IF slot = P_d THEN { NoValue, Dir, File(<< 1 >>) }
    ELSE IF slot = P_d_x THEN { NoValue, Dir, File(<< 1 >>), File(<< 2, 3 >>) }
    ELSE IF slot = P_d_h THEN { NoValue, File(<< 1 >>) }
    ELSE IF slot = P_d_s THEN { NoValue, Dir }
    ELSE { NoValue, File(<< 2, 3 >>) }

AllSlotNodes == UNION { SlotNodes(slot) : slot \in TreeSlots }

Trees ==
    { t \in [TreeSlots -> AllSlotNodes] :
        \A slot \in TreeSlots :
            /\ t[slot] \in SlotNodes(slot)
            /\ (t[slot] # NoValue /\ slot # P_d) => t[Parent(slot)] = Dir }

\* / and /p exist, the local area /l does not yet.
InitialFs(t) ==
    [n \in { << >>, << << "p" >> >> } \cup { slot \in TreeSlots : t[slot] # NoValue }
       |-> IF n \in TreeSlots THEN t[n] ELSE Dir]

\* The queries: a place or a pattern below each of three prefixes, the
\* logical root itself, a query to normalize, and one that is not absolute.
QueryPrefixes ==
    { << "/", "g", "/" >>, << "/", "g", "/", "p", "/" >>, << "/", "p", "/" >> }
QueryRemainders ==
    { << "d" >>, << "d", "/", "x" >>, << "d", "/", "x", "/", "n" >>,
      << "d", "/", "s" >>, << "d", "/", "*" >>, << "d", "/", "s", "/", "*" >>,
      << "*", "/", "x" >> }
FsQueries ==
    { pre \o rem : pre \in QueryPrefixes, rem \in QueryRemainders }
      \cup { << "/", "g" >>, << "/", "g", "/", "/", "d", "/", ".", "/", "x" >>,
             << "g", "/", "d" >> }

\* self.local_path(): the place in its local area the engine retrieves to.
LocalDests == { << "/", "l", "/", "o" >>, << "/", "l", "/", "m", "/", "o" >> }
IsLocal(node) == Len(node) > 0 /\ node[1] = << "l" >>

Idle == [op |-> "", at |-> "idle", cur |-> << >>]
At(op, at) == [op |-> op, at |-> at, cur |-> << >>]

Init ==
    /\ settings \in FsSettings
    /\ raw \in FsQueries
    /\ validation = NoValue
    /\ obj = NoValue
    /\ mapped = NoValue
    /\ accessed = NoValue
    /\ \E t \in Trees : fs = InitialFs(t)
    /\ snapshot = fs
    /\ dst \in LocalDests
    /\ pc = Idle
    /\ todo = {}
    /\ total = 0
    /\ checked = FALSE
    /\ outcome = NoValue
    /\ runs = 0
    /\ interrupted = FALSE

\* How an operation ends.
Return(op, value) ==
    [set |-> TRUE, op |-> op, kind |-> "return", value |-> value,
     text |-> "", query |-> None]
Raise(op, kind) ==
    [set |-> TRUE, op |-> op, kind |-> kind, value |-> NoValue,
     text |-> "", query |-> None]
WorkflowError(op, text, query) ==
    [set |-> TRUE, op |-> op, kind |-> "WorkflowError", value |-> NoValue,
     text |-> text, query |-> query]

\* except FileNotFoundError as e: raise WorkflowError(f"Object does not exist: {self.query}")
NotFoundOr(op, err) ==
    IF err = "FileNotFoundError"
    THEN WorkflowError(op, "Object does not exist: ", Some(obj.query))
    ELSE Raise(op, err)

Ready == obj # NoValue /\ pc = Idle
Touch(op) == [set |-> TRUE, op |-> op, path |-> _real_path(obj)]
NodeIsDir(f, node) == LookupError(f, node) = "ok" /\ f[node].kind = "dir"
NodeIsFile(f, node) == LookupError(f, node) = "ok" /\ f[node].kind = "file"
SrcNode == Resolve(_real_path(obj))
DstNode == Resolve(dst)

provider == << settings, raw, validation, obj, mapped >>

\* StorageObject.inventory
inventory ==
    /\ Ready
    /\ accessed' = Touch("inventory")
    /\ checked' = PathExists(fs, _real_path(obj))
    /\ outcome' = Return("inventory", NoValue)
    /\ UNCHANGED << provider, fs, dst, pc, todo, total, snapshot, runs, interrupted >>

\* StorageObject.exists
exists ==
    /\ Ready
    /\ accessed' = Touch("exists")
    /\ checked' = PathExists(fs, _real_path(obj))
    /\ outcome' = Return("exists", PathExists(fs, _real_path(obj)))
    /\ UNCHANGED << provider, fs, dst, pc, todo, total, snapshot, runs, interrupted >>

\* StorageObject.mtime: one stat call.
mtime ==
    /\ Ready
    /\ accessed' = Touch("mtime")
    /\ checked' = PathExists(fs, _real_path(obj))
    /\ outcome' = IF LookupError(fs, SrcNode) = "ok"
                  THEN Return("mtime", "st_mtime")
                  ELSE NotFoundOr("mtime", LookupError(fs, SrcNode))
    /\ UNCHANGED << provider, fs, dst, pc, todo, total, snapshot, runs, interrupted >>

\* StorageObject.size: real_path.is_dir(), then the listing or the stat.
size_is_dir ==
    /\ Ready
    /\ accessed' = Touch("size")
    /\ checked' = PathExists(fs, _real_path(obj))
    /\ total' = 0
    /\ outcome' = NoValue
    /\ IF PathIsDir(fs, _real_path(obj))
       THEN pc' = At("size", "loop") /\ todo' = RGlob(fs, _real_path(obj))
       ELSE pc' = At("size", "stat_self") /\ todo' = {}
    /\ UNCHANGED << provider, fs, dst, snapshot, runs, interrupted >>

\* return real_path.stat().st_size
size_stat_self ==
    /\ pc = At("size", "stat_self")
    /\ outcome' = IF LookupError(fs, SrcNode) = "ok"
                  THEN Return("size", Len(fs[SrcNode].data))
                  ELSE NotFoundOr("size", LookupError(fs, SrcNode))
    /\ pc' = Idle
    /\ UNCHANGED << provider, accessed, fs, dst, todo, total, checked, snapshot,
                    runs, interrupted >>

\* for p in real_path.rglob("*"): if p.is_file():
size_is_file ==
    /\ pc = At("size", "loop")
    /\ \E p \in todo :
          /\ todo' = todo \ { p }
          /\ pc' = IF NodeIsFile(fs, p) THEN [At("size", "stat") EXCEPT !.cur = p]
                   ELSE pc
    /\ UNCHANGED << provider, accessed, fs, dst, total, checked, outcome, snapshot,
                    runs, interrupted >>

\* total += p.stat().st_size
size_stat ==
    /\ pc.op = "size" /\ pc.at = "stat"
    /\ IF LookupError(fs, pc.cur) = "ok"
       THEN /\ total' = total + Len(fs[pc.cur].data)
            /\ pc' = At("size", "loop")
            /\ UNCHANGED outcome
       ELSE /\ outcome' = NotFoundOr("size", LookupError(fs, pc.cur))
            /\ pc' = Idle
            /\ UNCHANGED total
    /\ UNCHANGED << provider, accessed, fs, dst, todo, checked, snapshot, runs,
                    interrupted >>

\* return total
size_return ==
    /\ pc = At("size", "loop")
    /\ todo = {}
    /\ outcome' = Return("size", total)
    /\ pc' = Idle
    /\ UNCHANGED << provider, accessed, fs, dst, todo, total, checked, snapshot,
                    runs, interrupted >>

\* StorageObject.retrieve_object: if not src.exists(): raise WorkflowError
retrieve_exists ==
    /\ Ready
    /\ runs < MaxRuns
    /\ accessed' = Touch("retrieve_object")
    /\ checked' = PathExists(fs, _real_path(obj))
    /\ IF PathExists(fs, _real_path(obj))
       THEN pc' = At("retrieve_object", "mkdir_parent") /\ outcome' = NoValue
       ELSE /\ outcome' = WorkflowError("retrieve_object",
                              "Cannot retrieve non-existing object: ", Some(obj.query))
            /\ pc' = Idle
    /\ UNCHANGED << provider, fs, dst, todo, total, snapshot, runs, interrupted >>

\* dst.parent.mkdir(parents=True, exist_ok=True)
retrieve_mkdir_parent ==
    /\ pc = At("retrieve_object", "mkdir_parent")
    /\ LET made == Mkdir(fs, Parent(DstNode))
       IN  IF made.err = "ok"
           THEN fs' = made.fs /\ pc' = At("retrieve_object", "is_dir") /\ UNCHANGED outcome
           ELSE /\ outcome' = Raise("retrieve_object", made.err)
                /\ pc' = Idle
                /\ UNCHANGED fs
    /\ UNCHANGED << provider, accessed, dst, todo, total, checked, snapshot, runs,
                    interrupted >>

\* if src.is_dir(): for p in src.rglob("*")
retrieve_is_dir ==
    /\ pc = At("retrieve_object", "is_dir")
    /\ IF PathIsDir(fs, _real_path(obj))
       THEN pc' = At("retrieve_object", "loop") /\ todo' = RGlob(fs, _real_path(obj))
       ELSE pc' = At("retrieve_object", "copy_self") /\ todo' = {}
    /\ UNCHANGED << provider, accessed, fs, dst, total, checked, outcome, snapshot,
                    runs, interrupted >>

\* dst.write_bytes(src.read_bytes())
retrieve_copy_self ==
    /\ pc = At("retrieve_object", "copy_self")
    /\ LET read == ReadBytes(fs, SrcNode)
           written == WriteBytes(fs, DstNode, read.data)
       IN  IF read.err # "ok"
           THEN /\ outcome' = Raise("retrieve_object", read.err)
                /\ UNCHANGED << fs, runs >>
           ELSE IF written.err # "ok"
           THEN /\ outcome' = Raise("retrieve_object", written.err)
                /\ UNCHANGED << fs, runs >>
           ELSE /\ fs' = written.fs
                /\ outcome' = Return("retrieve_object", NoValue)
                /\ runs' = runs + 1
    /\ pc' = Idle
    /\ UNCHANGED << provider, accessed, dst, todo, total, checked, snapshot,
                    interrupted >>

\* The loop body up to its directory write: target.mkdir(...) for a directory,
\* target.parent.mkdir(...) for anything else.
retrieve_entry ==
    /\ pc = At("retrieve_object", "loop")
    /\ \E p \in todo :
          LET target == TargetOf(p, _real_path(obj), DstNode)
              made == IF NodeIsDir(fs, p) THEN Mkdir(fs, target)
                      ELSE Mkdir(fs, Parent(target))
          IN  IF made.err # "ok"
              THEN /\ outcome' = Raise("retrieve_object", made.err)
                   /\ pc' = Idle
                   /\ todo' = {}
                   /\ UNCHANGED fs
              ELSE /\ fs' = made.fs
                   /\ todo' = todo \ { p }
                   /\ pc' = IF NodeIsDir(fs, p) THEN pc
                            ELSE [At("retrieve_object", "copy") EXCEPT !.cur = p]
                   /\ UNCHANGED outcome
    /\ UNCHANGED << provider, accessed, dst, total, checked, snapshot, runs,
                    interrupted >>

\* target.write_bytes(p.read_bytes())
retrieve_copy ==
    /\ pc.op = "retrieve_object" /\ pc.at = "copy"
    /\ LET read == ReadBytes(fs, pc.cur)
           written == WriteBytes(fs, TargetOf(pc.cur, _real_path(obj), DstNode), read.data)
       IN  IF read.err # "ok"
           THEN /\ outcome' = Raise("retrieve_object", read.err)
                /\ pc' = Idle /\ todo' = {}
                /\ UNCHANGED fs
           ELSE IF written.err # "ok"
           THEN /\ outcome' = Raise("retrieve_object", written.err)
                /\ pc' = Idle /\ todo' = {}
                /\ UNCHANGED fs
           ELSE /\ fs' = written.fs
                /\ pc' = At("retrieve_object", "loop")
                /\ UNCHANGED << outcome, todo >>
    /\ UNCHANGED << provider, accessed, dst, total, checked, snapshot, runs,
                    interrupted >>

\* The loop is through: retrieve_object returns.
retrieve_return ==
    /\ pc = At("retrieve_object", "loop")
    /\ todo = {}
    /\ outcome' = Return("retrieve_object", NoValue)
    /\ runs' = runs + 1
    /\ pc' = Idle
    /\ UNCHANGED << provider, accessed, fs, dst, todo, total, checked, snapshot,
                    interrupted >>

ReadOnlyStore == "NERSC storage plugin is read-only; store_object is not supported."
ReadOnlyRemove == "NERSC storage plugin is read-only; remove is not supported."

\* StorageObject.store_object
store_object ==
    /\ Ready
    /\ accessed' = NoValue
    /\ outcome' = WorkflowError("store_object", ReadOnlyStore, None)
    /\ UNCHANGED << provider, fs, dst, pc, todo, total, checked, snapshot, runs,
                    interrupted >>

\* remove that deletes the object's node (a leaf) instead of refusing.
remove_unlinks ==
    /\ Ready
    /\ SrcNode \in DOMAIN fs
    /\ \A n \in DOMAIN fs : IsPrefix(SrcNode, n) => n = SrcNode
    /\ accessed' = Touch("remove")
    /\ fs' = [n \in DOMAIN fs \ { SrcNode } |-> fs[n]]
    /\ outcome' = Return("remove", NoValue)
    /\ UNCHANGED << provider, dst, pc, todo, total, checked, snapshot, runs,
                    interrupted >>

\* StorageObject.remove
remove ==
    /\ Ready
    /\ accessed' = NoValue
    /\ outcome' = WorkflowError("remove", ReadOnlyRemove, None)
    /\ UNCHANGED << provider, fs, dst, pc, todo, total, checked, snapshot, runs,
                    interrupted >>

\* StorageObject.list_candidate_matches; the list is kept as the set of its
\* elements, its order being that of the directory listing.
list_candidate_matches ==
    /\ Ready
    /\ accessed' = Touch("list_candidate_matches")
    /\ checked' = PathExists(fs, _real_path(obj))
    /\ outcome' = Return("list_candidate_matches",
                         { _logical_from_physical(obj, path) :
                             path \in Glob(fs, _real_path(obj), FALSE) })
    /\ UNCHANGED << provider, fs, dst, pc, todo, total, snapshot, runs, interrupted >>

\* The directories a mkdir(parents=True) that is about to run would make
\* before its last one.
PendingMkdirs ==
    IF pc.at = "mkdir_parent" THEN { Parent(DstNode) }
    ELSE IF pc.at = "loop"
    THEN { IF NodeIsDir(fs, p) THEN TargetOf(p, _real_path(obj), DstNode)
           ELSE Parent(TargetOf(p, _real_path(obj), DstNode)) : p \in todo }
    ELSE {}

\* The file write a copy step is about to do: from, to and the bytes.
PendingWrite ==
    IF pc.at = "copy"
    THEN [from |-> pc.cur, to |-> TargetOf(pc.cur, _real_path(obj), DstNode)]
    ELSE [from |-> SrcNode, to |-> DstNode]

\* A retrieve_object call is cut off (the process is stopped, or a transient
\* error makes the retry wrapper start the call again): between two steps,
\* inside a mkdir(parents=True) that has made some of its directories, or
\* inside a write_bytes that has written some of its bytes.
Interrupt ==
    /\ pc.op = "retrieve_object"
    /\ \/ UNCHANGED fs
       \/ \E target \in PendingMkdirs : \E i \in 1..(Len(target) - 1) :
             /\ Mkdir(fs, SubSeq(target, 1, i)).err = "ok"
             /\ fs' = Mkdir(fs, SubSeq(target, 1, i)).fs
             /\ fs' # fs
       \/ /\ pc.at \in { "copy", "copy_self" }
          /\ ReadBytes(fs, PendingWrite.from).err = "ok"
          /\ \E k \in 0..(Len(ReadBytes(fs, PendingWrite.from).data) - 1) :
                LET part == WriteBytes(fs, PendingWrite.to,
                                SubSeq(ReadBytes(fs, PendingWrite.from).data, 1, k))
                IN  part.err = "ok" /\ fs' = part.fs
    /\ pc' = Idle
    /\ todo' = {}
    /\ outcome' = Raise("retrieve_object", "interrupted")
    /\ interrupted' = (interrupted \/ fs' # snapshot)
    /\ UNCHANGED << provider, accessed, dst, total, checked, snapshot, runs >>

\* Another process deletes a file or an empty directory of the storage tree.
ExternalDelete ==
    /\ \E node \in DOMAIN fs :
          /\ Len(node) > 1
          /\ ~IsLocal(node)
          /\ \A n \in DOMAIN fs : IsPrefix(node, n) => n = node
          /\ fs' = [n \in DOMAIN fs \ { node } |-> fs[n]]
    /\ UNCHANGED << provider, accessed, dst, pc, todo, total, checked, outcome,
                    snapshot, runs, interrupted >>

Operations ==
    \/ inventory
    \/ exists
    \/ mtime
    \/ size_is_dir
    \/ size_stat_self
    \/ size_is_file
    \/ size_stat
    \/ size_return
    \/ retrieve_exists
    \/ retrieve_mkdir_parent
    \/ retrieve_is_dir
    \/ retrieve_copy_self
    \/ retrieve_entry
    \/ retrieve_copy
    \/ retrieve_return
    \/ store_object
    \/ remove
    \/ list_candidate_matches

Next ==
    \/ ValidateQuery
    \/ ConstructObject
    \/ Operations
    \/ Interrupt

Spec == Init /\ [][Next]_vars

NextRace ==
    \/ ValidateQuery
    \/ ConstructObject
    \/ Operations
    \/ ExternalDelete

\* The race is followed for one configuration, one destination and the
\* queries of a directory, of a file in it and of a pattern.
RaceQueries ==
    { << "/", "g", "/", "d" >>, << "/", "g", "/", "d", "/", "x" >>,
      << "/", "g", "/", "d", "/", "s" >>, << "/", "g", "/", "d", "/", "*" >> }

InitRace ==
    /\ Init
    /\ settings.physical_root = Some(<< "/", "p", "/" >>)
    /\ dst = << "/", "l", "/", "o" >>
    /\ raw \in RaceQueries

SpecRace == InitRace /\ [][NextRace]_vars

(***************************************************************************)
(* retrieve_object run from its first line to its last with nothing in     *)
(* between: the entries are taken a directory before what is in it.        *)
(***************************************************************************)
RECURSIVE CopyTree(_, _, _, _)
CopyTree(f, entries, src, dstNode) ==
    IF entries = {} THEN [err |-> "ok", fs |-> f]
    ELSE LET p == CHOOSE e \in entries : \A o \in entries : Len(e) <= Len(o)
             target == TargetOf(p, src, dstNode)
             made == IF NodeIsDir(f, p) THEN Mkdir(f, target) ELSE Mkdir(f, Parent(target))
             read == ReadBytes(made.fs, p)
             written == WriteBytes(made.fs, target, read.data)
         IN  IF made.err # "ok" THEN [err |-> made.err, fs |-> f]
             ELSE IF NodeIsDir(f, p) THEN CopyTree(made.fs, entries \ { p }, src, dstNode)
             ELSE IF read.err # "ok" THEN [err |-> read.err, fs |-> made.fs]
             ELSE IF written.err # "ok" THEN [err |-> written.err, fs |-> made.fs]
             ELSE CopyTree(written.fs, entries \ { p }, src, dstNode)

RetrieveUninterrupted(f, self, dstPath) ==
    LET src == _real_path(self)
        made == Mkdir(f, Parent(Resolve(dstPath)))
        read == ReadBytes(made.fs, Resolve(src))
        written == WriteBytes(made.fs, Resolve(dstPath), read.data)
        copied == CopyTree(made.fs, RGlob(made.fs, src), src, Resolve(dstPath))
    IN  IF ~PathExists(f, src)
        THEN [fs |-> f,
              outcome |-> WorkflowError("retrieve_object",
                              "Cannot retrieve non-existing object: ", Some(self.query))]
        ELSE IF made.err # "ok"
        THEN [fs |-> f, outcome |-> Raise("retrieve_object", made.err)]
        ELSE IF PathIsDir(made.fs, src)
        THEN [fs |-> copied.fs,
              outcome |-> IF copied.err = "ok" THEN Return("retrieve_object", NoValue)
                          ELSE Raise("retrieve_object", copied.err)]
        ELSE IF read.err # "ok"
        THEN [fs |-> made.fs, outcome |-> Raise("retrieve_object", read.err)]
        ELSE IF written.err # "ok"
        THEN [fs |-> made.fs, outcome |-> Raise("retrieve_object", written.err)]
        ELSE [fs |-> written.fs, outcome |-> Return("retrieve_object", NoValue)]

(***************************************************************************)
(* Claims on the operations, checked under Spec and SpecRace               *)
(***************************************************************************)
\* Everything outside the engine's local area; the storage tree is in it.
OutsideLocal(f) == [n \in { m \in DOMAIN f : ~IsLocal(m) } |-> f[n]]

Finished(op) == pc = Idle /\ outcome # NoValue /\ outcome.op = op

\* C1: store_object and remove always fail with the read-only error, and
\* after any sequence of operations the filesystem outside the local
\* destination area, the tree under PhysicalRoot in it, is what it was before.
C1_ReadOnlyStorageUntouched ==
    /\ OutsideLocal(fs) = OutsideLocal(snapshot)
    /\ Finished("store_object") =>
          outcome = WorkflowError("store_object", ReadOnlyStore, None)
    /\ Finished("remove") =>
          outcome = WorkflowError("remove", ReadOnlyRemove, None)

\* C1's case: remove was refused on an object that exists, after a
\* retrieve_object that wrote to the local area.
C1_RemoveRefusedAfterRetrieve ==
    /\ Finished("remove")
    /\ PathExists(fs, _real_path(obj))
    /\ runs > 0
    /\ fs # snapshot

\* C5: for a query whose physical path does not exist, exists() returns
\* False, and mtime(), size() and retrieve_object() fail with the
\* WorkflowError that names the query, nothing being written locally.
C5_NotFoundIsWorkflowError ==
    (obj # NoValue /\ pc = Idle /\ outcome # NoValue /\ ~PathExists(fs, _real_path(obj))) =>
        /\ outcome.op = "exists" => outcome = Return("exists", FALSE)
        /\ outcome.op \in { "mtime", "size" } =>
              outcome = WorkflowError(outcome.op, "Object does not exist: ",
                                      Some(obj.query))
        /\ outcome.op = "retrieve_object" =>
              outcome = WorkflowError("retrieve_object",
                            "Cannot retrieve non-existing object: ", Some(obj.query))
        /\ fs = snapshot

\* C6: with the source unchanged, a retrieve_object call that runs to its
\* end, after any number of calls that ran to their end or were cut off at any
\* point, ends as one uninterrupted call on the fresh destination ends, and
\* leaves the filesystem that call leaves.
C6_RetrieveIdempotent ==
    (Finished("retrieve_object") /\ outcome.kind # "interrupted") =>
        /\ outcome = RetrieveUninterrupted(snapshot, obj, dst).outcome
        /\ fs = RetrieveUninterrupted(snapshot, obj, dst).fs

\* C6's case: the second call that ran to its end, an earlier one having been
\* cut off after it had written, with a copied file below the destination.
C6_SecondRunAfterInterrupt ==
    /\ Finished("retrieve_object")
    /\ outcome.kind = "return"
    /\ runs = 2
    /\ interrupted
    /\ \E n \in DOMAIN fs : IsPrefix(DstNode, n) /\ n # DstNode /\ fs[n].kind = "file"

\* The destination mirrors the source.
Mirrors(f, srcNode, dstNode) ==
    /\ dstNode \in DOMAIN f
    /\ f[dstNode] = f[srcNode]
    /\ \A n \in DOMAIN f : (IsPrefix(srcNode, n) /\ n # srcNode) =>
          LET target == dstNode \o DropFirst(n, Len(srcNode))
          IN  target \in DOMAIN f /\ f[target] = f[n]

\* C7: after retrieve_object returns, the destination mirrors the source: a
\* file with the same bytes, or a directory (also for a source directory with
\* no entries) with every sub-directory and every file of the source.
C7_RetrieveMirrorsSource ==
    (Finished("retrieve_object") /\ outcome.kind = "return") =>
        Mirrors(fs, SrcNode, DstNode)

\* C8: for a pattern query under LogicalRoot the result is the set of the
\* logical images of the physical matches, every element is a query under
\* LogicalRoot whose physical image exists and matches, and no match gives
\* the empty result.
C8_GlobExpansion ==
    (Finished("list_candidate_matches") /\ StartsWith(obj.query, LogicalRoot \o << "/" >>)) =>
        LET matches == Glob(fs, _real_path(obj), FALSE)
        IN  /\ outcome.kind = "return"
            /\ outcome.value = { _logical_from_physical(obj, path) : path \in matches }
            /\ \A e \in outcome.value :
                  /\ StartsWith(e, LogicalRoot \o << "/" >>)
                  /\ PathExists(fs, _real_path([obj EXCEPT !.query = e]))
                  /\ _real_path([obj EXCEPT !.query = e]) \in matches
            /\ matches = {} => outcome.value = {}

\* C10: with another process deleting storage files at any point, an mtime,
\* size or retrieve_object call whose path was there when the call started
\* returns or fails with the WorkflowError that names the query.
C10_VanishedPathIsWorkflowError ==
    (pc = Idle /\ outcome # NoValue /\ checked
        /\ outcome.op \in { "mtime", "size", "retrieve_object" }) =>
        /\ outcome.kind \in { "return", "WorkflowError" }
        /\ outcome.kind = "WorkflowError" => outcome.query = Some(obj.query)

(***************************************************************************)
(* Claims on the path mapping, checked under SpecPath                      *)
(***************************************************************************)
\* C2: for a normalized query under LogicalRoot + "/", _real_path is
\* PhysicalRoot followed by the same remainder, and for the query that is
\* LogicalRoot itself _real_path is PhysicalRoot with no trailing separator.
C2_RealPathReplacesRoot ==
    mapped # NoValue =>
        /\ StartsWith(obj.query, LogicalRoot \o << "/" >>) =>
              mapped.physical = PhysicalRoot \o DropFirst(obj.query, Len(LogicalRoot))
        /\ obj.query = LogicalRoot => mapped.physical = PhysicalRoot

\* C3: round trip: for every accepted query q and every configuration,
\* _logical_from_physical(_real_path(postprocess_query(q))) is
\* postprocess_query(q).
C3_RoundTrip ==
    (mapped # NoValue /\ mapped.logical # None) =>
        mapped.logical = Some(postprocess_query(raw))

C9_IoConfinedToPhysicalRoot ==
    accessed # NoValue => UnderRoot(accessed.path, PhysicalRoot)

====
